---- MODULE Spec2Model ----
(***************************************************************************)
(* RRZ Unified AI Gateway (Netlify function): the request handler, its     *)
(* rate limiter, the upstream client with its timeout, and the JSON        *)
(* extraction of the model output.                                         *)
(*                                                                         *)
(* JavaScript strings are modelled as sequences of lexical tokens so that  *)
(* JSON.parse, String.prototype.trim, slice, length and the regular        *)
(* expression of extractJson are computed, not assumed.                    *)
(***************************************************************************)
EXTENDS Integers, Sequences, FiniteSets, TLC

(***************************************************************************)
(* Program constants                                                       *)
(***************************************************************************)
DEFAULT_TIMEOUT_MS == 25000
MAX_BODY_CHARS == 250000
RATE_windowMs == 60000
RATE_max == 40
CLAMP_MAX == 50000
DEFAULT_TEMPERATURE == 2   \* 0.2: numbers are kept in tenths

(***************************************************************************)
(* Tokens of a JavaScript string.  A string is a sequence of tokens:       *)
(*   punctuation  { } [ ] , :      one character each                      *)
(*   true false null               JSON literals                           *)
(*   num          the decimal integer literal n                            *)
(*   str          a double-quoted string literal; s is the quoted text     *)
(*   id           the word w: a run of letters (a word or a name)          *)
(*   ws           v whitespace characters                                  *)
(*   x            v prose characters that are neither JSON nor braces      *)
(***************************************************************************)
\* Every token has the same fields: n a number, w a word, s a text.
Tok(k) == [k |-> k, n |-> 0, w |-> "", s |-> <<>>]
TNum(n) == [k |-> "num", n |-> n, w |-> "", s |-> <<>>]
TStr(txt) == [k |-> "str", n |-> 0, w |-> "", s |-> txt]
TId(s) == [k |-> "id", n |-> 0, w |-> s, s |-> <<>>]
TWs(n) == [k |-> "ws", n |-> n, w |-> "", s |-> <<>>]
TX(n) == [k |-> "x", n |-> n, w |-> "", s |-> <<>>]

LB == Tok("{")
RB == Tok("}")
LK == Tok("[")
RK == Tok("]")
COMMA == Tok(",")
COLON == Tok(":")

Word(s) == <<TId(s)>>
Key(s) == TStr(Word(s))
EmptyText == <<>>

RECURSIVE NumLen(_)
NumLen(n) == IF n < 0 THEN 1 + NumLen(-n) ELSE IF n < 10 THEN 1 ELSE 1 + NumLen(n \div 10)

RECURSIVE TextLen(_)
TokLen(t) ==
  CASE t.k \in {"{", "}", "[", "]", ",", ":"} -> 1
    [] t.k \in {"true", "null"} -> 4
    [] t.k = "false" -> 5
    [] t.k = "num" -> NumLen(t.n)
    [] t.k = "str" -> 2 + TextLen(t.s)
    [] t.k = "id" -> Len(t.w)
    [] t.k \in {"ws", "x"} -> t.n

\* String.prototype.length
TextLen(s) == IF s = <<>> THEN 0 ELSE TokLen(Head(s)) + TextLen(Tail(s))

(***************************************************************************)
(* JavaScript values, every one with the same fields:                      *)
(*   t the type; n the number (in tenths) or the boolean as 0/1;           *)
(*   s the text of a string; a the elements of an array;                   *)
(*   p the own properties of an object, a function from names to values.   *)
(***************************************************************************)
JVal(t, n, s, a, p) == [t |-> t, n |-> n, s |-> s, a |-> a, p |-> p]
Undef == JVal("undef", 0, <<>>, <<>>, <<>>)
Null == JVal("null", 0, <<>>, <<>>, <<>>)
JBool(b) == JVal("bool", IF b THEN 1 ELSE 0, <<>>, <<>>, <<>>)
JNum(n) == JVal("num", n, <<>>, <<>>, <<>>)   \* the number n/10
JStr(txt) == JVal("str", 0, txt, <<>>, <<>>)
JArr(items) == JVal("arr", 0, <<>>, items, <<>>)
JObj(f) == JVal("obj", 0, <<>>, <<>>, f)
EmptyObj == JObj(<<>>)

\* ToBoolean
Truthy(x) ==
  CASE x.t \in {"undef", "null"} -> FALSE
    [] x.t = "bool" -> x.n = 1
    [] x.t = "num" -> x.n # 0
    [] x.t = "str" -> TextLen(x.s) > 0
    [] OTHER -> TRUE

\* a || b
Or(a, b) == IF Truthy(a) THEN a ELSE b

\* x?.name : own property of an object, undefined otherwise
Get(x, name) ==
  IF x.t = "obj" /\ name \in DOMAIN x.p THEN x.p[name] ELSE Undef

\* x?.[0]
Get0(x) ==
  CASE x.t = "arr" -> IF Len(x.a) > 0 THEN x.a[1] ELSE Undef
    [] x.t = "obj" -> Get(x, "0")
    [] x.t = "str" -> IF TextLen(x.s) > 0 THEN JStr(<<TX(1)>>) ELSE Undef
    [] OTHER -> Undef

(***************************************************************************)
(* JSON.parse over tokens                                                  *)
(***************************************************************************)
RECURSIVE SkipWs(_, _)
SkipWs(s, i) ==
  IF i <= Len(s) /\ s[i].k = "ws" THEN SkipWs(s, i + 1) ELSE i

ParseFail == [ok |-> FALSE, val |-> Undef, next |-> 0]
ParseOk(val, next) == [ok |-> TRUE, val |-> val, next |-> next]

\* the property name a quoted key denotes
KeyName(txt) ==
  IF txt = <<>> THEN ""
  ELSE IF Len(txt) = 1 /\ txt[1].k = "id" THEN txt[1].w ELSE "?"

\* obj[name] = val (a repeated key keeps the last value)
SetProp(f, name, val) ==
  [x \in (DOMAIN f) \cup {name} |-> IF x = name THEN val ELSE f[x]]

RECURSIVE ParseValue(_, _)
RECURSIVE ParseMembers(_, _, _, _)
RECURSIVE ParseItems(_, _, _, _)

\* after the value r of the member named by the key at j
AfterMember(s, j, acc, r, m) ==
  IF ~r.ok \/ m > Len(s) THEN ParseFail
  ELSE IF s[m].k = "}" THEN ParseOk(JObj(SetProp(acc, KeyName(s[j].s), r.val)), m + 1)
  ELSE IF s[m].k = "," THEN ParseMembers(s, m + 1, SetProp(acc, KeyName(s[j].s), r.val), FALSE)
  ELSE ParseFail

MemberValue(s, j, acc, r) ==
  AfterMember(s, j, acc, r, IF r.ok THEN SkipWs(s, r.next) ELSE 0)

\* the member whose key is at j; c is the position of its colon
Member(s, j, acc, c) ==
  IF c > Len(s) \/ s[c].k # ":" THEN ParseFail
  ELSE MemberValue(s, j, acc, ParseValue(s, c + 1))

MembersAt(s, j, acc, first) ==
  IF j > Len(s) THEN ParseFail
  ELSE IF s[j].k = "}" /\ first THEN ParseOk(JObj(acc), j + 1)
  ELSE IF s[j].k # "str" THEN ParseFail
  ELSE Member(s, j, acc, SkipWs(s, j + 1))

ParseMembers(s, i, acc, first) == MembersAt(s, SkipWs(s, i), acc, first)

AfterItem(s, acc, r, m) ==
  IF ~r.ok \/ m > Len(s) THEN ParseFail
  ELSE IF s[m].k = "]" THEN ParseOk(JArr(Append(acc, r.val)), m + 1)
  ELSE IF s[m].k = "," THEN ParseItems(s, m + 1, Append(acc, r.val), FALSE)
  ELSE ParseFail

ItemValue(s, acc, r) == AfterItem(s, acc, r, IF r.ok THEN SkipWs(s, r.next) ELSE 0)

ItemsAt(s, j, acc, first) ==
  IF j > Len(s) THEN ParseFail
  ELSE IF s[j].k = "]" /\ first THEN ParseOk(JArr(acc), j + 1)
  ELSE ItemValue(s, acc, ParseValue(s, j))

ParseItems(s, i, acc, first) == ItemsAt(s, SkipWs(s, i), acc, first)

ValueAt(s, j) ==
  IF j > Len(s) THEN ParseFail
  ELSE
    CASE s[j].k = "str" -> ParseOk(JStr(s[j].s), j + 1)
      [] s[j].k = "num" -> ParseOk(JNum(10 * s[j].n), j + 1)
      [] s[j].k = "true" -> ParseOk(JBool(TRUE), j + 1)
      [] s[j].k = "false" -> ParseOk(JBool(FALSE), j + 1)
      [] s[j].k = "null" -> ParseOk(Null, j + 1)
      [] s[j].k = "{" -> ParseMembers(s, j + 1, <<>>, TRUE)
      [] s[j].k = "[" -> ParseItems(s, j + 1, <<>>, TRUE)
      [] OTHER -> ParseFail

\* the JSON value that starts at position i, after whitespace
ParseValue(s, i) == ValueAt(s, SkipWs(s, i))

\* only whitespace may follow the value
WholeText(s, r) ==
  IF r.ok /\ SkipWs(s, r.next) > Len(s) THEN r ELSE ParseFail

\* JSON.parse(str): ok is FALSE where JSON.parse throws a SyntaxError
JsonParse(s) == WholeText(s, ParseValue(s, 1))

ValueOrNull(r) == IF r.ok THEN r.val ELSE Null

\* try { return JSON.parse(str); } catch { return null; }
safeJsonParse(str) == ValueOrNull(JsonParse(str))

(***************************************************************************)
(* String operations                                                       *)
(***************************************************************************)
RECURSIVE TrimLeft(_)
TrimLeft(s) ==
  IF s # <<>> /\ Head(s).k = "ws" THEN TrimLeft(Tail(s)) ELSE s

RECURSIVE TrimRight(_)
TrimRight(s) ==
  IF s # <<>> /\ s[Len(s)].k = "ws" THEN TrimRight(SubSeq(s, 1, Len(s) - 1)) ELSE s

\* String.prototype.trim
Trim(s) == TrimRight(TrimLeft(s))

\* s.slice(0, max): whole tokens are kept while they fit; a run of ws or x
\* characters is cut exactly; any other token cut in the middle leaves prose
RECURSIVE Slice(_, _)
Slice(s, max) ==
  IF s = <<>> \/ max <= 0 THEN <<>>
  ELSE
    LET h == Head(s)
        n == TokLen(h)
    IN
    IF n <= max THEN <<h>> \o Slice(Tail(s), max - n)
    ELSE IF h.k = "ws" THEN <<TWs(max)>>
    ELSE <<TX(max)>>

clampString(x, max) ==
  IF TextLen(x) <= max THEN x ELSE Slice(x, max)

\* s.match(/\{[\s\S]*\}/): from the first { to the last } after it.
\* <<>> stands for no match (a match is never empty).
FirstIdx(s, k) ==
  LET I == {i \in 1..Len(s) : s[i].k = k} IN
  IF I = {} THEN 0 ELSE CHOOSE i \in I : \A j \in I : i <= j

LastIdx(s, k) ==
  LET I == {i \in 1..Len(s) : s[i].k = k} IN
  IF I = {} THEN 0 ELSE CHOOSE i \in I : \A j \in I : i >= j

BraceMatch(s) ==
  LET a == FirstIdx(s, "{")
      b == LastIdx(s, "}")
  IN IF a > 0 /\ b > a THEN SubSeq(s, a, b) ELSE <<>>

(***************************************************************************)
(* x.toString(): threw is TRUE where the call raises a TypeError           *)
(***************************************************************************)
StrOk(txt) == [threw |-> FALSE, s |-> txt]
StrThrew == [threw |-> TRUE, s |-> <<>>]

ObjectObject == <<LK, TId("object"), TWs(1), TId("Object"), RK>>

RECURSIVE ToStr(_)
RECURSIVE Join(_)

\* h is the string of the first element and r the joined rest
Joined(items, h, r) ==
  IF h.threw \/ r.threw THEN StrThrew
  ELSE IF Len(items) = 1 THEN h
  ELSE StrOk(h.s \o <<COMMA>> \o r.s)

\* Array.prototype.join(","): null and undefined elements give ""
Join(items) ==
  IF items = <<>> THEN StrOk(<<>>)
  ELSE Joined(items,
              IF Head(items).t \in {"undef", "null"} THEN StrOk(<<>>) ELSE ToStr(Head(items)),
              Join(Tail(items)))

ToStr(x) ==
  CASE x.t = "str" -> StrOk(x.s)
    [] x.t = "num" ->
         IF x.n % 10 = 0 THEN StrOk(<<TNum(x.n \div 10)>>)
         ELSE StrOk(<<TNum(x.n \div 10), TX(1), TNum(x.n % 10)>>)
    [] x.t = "bool" -> StrOk(IF x.n = 1 THEN <<Tok("true")>> ELSE <<Tok("false")>>)
    [] x.t = "arr" -> Join(x.a)
    [] x.t = "obj" ->
         \* an own property "toString" read from JSON is never a function
         IF "toString" \in DOMAIN x.p THEN StrThrew ELSE StrOk(ObjectObject)
    [] OTHER -> StrThrew

(***************************************************************************)
(* extractJson(raw): result is the value returned; threw is TRUE where     *)
(* (raw || '').toString() raises.                                          *)
(***************************************************************************)
Extracted(val) == [threw |-> FALSE, val |-> val]

\* the regular expression matched m: JSON.parse of the match
FromMatch(m, inner) == IF m # <<>> /\ Truthy(inner) THEN Extracted(inner) ELSE Extracted(Null)

FromBlock(m) == FromMatch(m, safeJsonParse(m))

\* direct is the result of parsing the whole trimmed text s
FromDirect(s, direct) ==
  IF TextLen(s) = 0 THEN Extracted(Null)
  ELSE IF Truthy(direct) THEN Extracted(direct)
  ELSE FromBlock(BraceMatch(s))

FromTrimmed(s) == FromDirect(s, safeJsonParse(s))

FromString(str) ==
  IF str.threw THEN [threw |-> TRUE, val |-> Null] ELSE FromTrimmed(Trim(str.s))

extractJson(raw) == FromString(ToStr(Or(raw, JStr(<<>>))))

(***************************************************************************)
(* Words: toLowerCase and startsWith('en') on the words the model uses     *)
(***************************************************************************)
LowerWord(w) ==
  CASE w = "EN-us" -> "en-us"
    [] w = "English" -> "english"
    [] w = "OpenAI" -> "openai"
    [] w = "OpenRouter" -> "openrouter"
    [] OTHER -> w

WordStartsWithEn(w) == w \in {"en", "en-us", "english"}

\* String.prototype.toLowerCase
ToLower(s) ==
  [i \in 1..Len(s) |-> IF s[i].k = "id" THEN TId(LowerWord(s[i].w)) ELSE s[i]]

\* s.startsWith('en')
StartsWithEn(s) ==
  s # <<>> /\ s[1].k = "id" /\ WordStartsWithEn(s[1].w)

\* new Error(message) and String(e)
Err(name, message) == [name |-> name, message |-> message]
NoErr == Err("", <<>>)
ErrString(e) == <<TId(e.name), COLON, TWs(1)>> \o e.message

(***************************************************************************)
(* buildPrompts(task, payload, meta).  The prompt texts are fixed per task *)
(* and language, so system is the pair <<task, lang>> and user is the      *)
(* object that is serialised: its instruction, template and input.         *)
(*   threw: a toString() call raised;  isNull: the function returned null  *)
(***************************************************************************)
Tasks == {"panorama_json_to_report", "ceph_treatment_planner", "voice_to_report", "ask_radiology"}

Prompts(system, instruction, template, input) ==
  [system |-> system, user |-> [instruction |-> instruction, template |-> template, input |-> input]]
NoPrompts == Prompts(<<>>, <<>>, Undef, Undef)
BuildThrew == [threw |-> TRUE, isNull |-> FALSE, prompts |-> NoPrompts]
BuildNull == [threw |-> FALSE, isNull |-> TRUE, prompts |-> NoPrompts]
BuildOk(pr) == [threw |-> FALSE, isNull |-> FALSE, prompts |-> pr]

voicePrompts(lang, transcript, template) ==
  IF transcript.threw \/ template.threw THEN BuildThrew
  ELSE BuildOk(Prompts(<<"voice_to_report", lang>>, <<"voice_to_report", lang>>,
                       JStr(template.s), JStr(transcript.s)))

askPrompts(lang, q) ==
  IF q.threw THEN BuildThrew
  ELSE BuildOk(Prompts(<<"ask_radiology", lang>>, <<"ask_radiology", lang>>, Undef, JStr(q.s)))

\* the branches on task, the language being resolved
promptsIn(task, payload, lang) ==
  IF task = Word("panorama_json_to_report") THEN
    BuildOk(Prompts(<<"panorama_json_to_report", lang>>, <<"panorama_json_to_report", lang>>, Undef,
                    JObj([findings |-> Or(Get(payload, "findings"), Or(Get(payload, "items"), JArr(<<>>))),
                          summary |-> Or(Get(payload, "summary"), EmptyObj)])))
  ELSE IF task = Word("ceph_treatment_planner") THEN
    BuildOk(Prompts(<<"ceph_treatment_planner", lang>>, <<"ceph_treatment_planner", lang>>, Undef,
                    Or(Get(payload, "ceph"), Or(Get(payload, "measurements"), Or(payload, EmptyObj)))))
  ELSE IF task = Word("voice_to_report") THEN
    voicePrompts(lang,
                 ToStr(Or(Get(payload, "transcript"), Or(Get(payload, "text"), JStr(<<>>)))),
                 ToStr(Or(Get(payload, "template"), JStr(<<>>))))
  ELSE IF task = Word("ask_radiology") THEN
    askPrompts(lang, ToStr(Or(Get(payload, "question"), Or(Get(payload, "q"), JStr(<<>>)))))
  ELSE BuildNull

\* langStr is (meta?.lang || payload?.lang || 'ar').toString()
promptsFor(task, payload, langStr) ==
  IF langStr.threw THEN BuildThrew
  ELSE promptsIn(task, payload, IF StartsWithEn(ToLower(langStr.s)) THEN "en" ELSE "ar")

buildPrompts(task, payload, meta) ==
  promptsFor(task, payload,
             ToStr(Or(Get(meta, "lang"), Or(Get(payload, "lang"), JStr(Word("ar"))))))

(***************************************************************************)
(* corsHeaders(origin) with the Content-Type the handler adds              *)
(***************************************************************************)
\* corsHeaders that allows every origin instead of echoing the request's
corsHeadersWildcard(origin) ==
  [AllowOrigin |-> JStr(Word("*")),
   Vary |-> "Origin",
   AllowHeaders |-> "Content-Type, Authorization",
   AllowMethods |-> "POST, OPTIONS"]

corsHeaders(origin) ==
  [AllowOrigin |-> Or(origin, JStr(Word("*"))),
   Vary |-> "Origin",
   AllowHeaders |-> "Content-Type, Authorization",
   AllowMethods |-> "POST, OPTIONS"]

\* { ...corsHeaders(origin), 'Content-Type': 'application/json; charset=utf-8' }
ResponseHeaders(origin) ==
  LET c == corsHeaders(origin) IN
  [AllowOrigin |-> c.AllowOrigin, Vary |-> c.Vary, AllowHeaders |-> c.AllowHeaders,
   AllowMethods |-> c.AllowMethods, ContentType |-> "application/json; charset=utf-8"]

(***************************************************************************)
(* rateLimit(ip): b is the bucket record after the call                    *)
(***************************************************************************)
Bucket(start, count) == [start |-> start, count |-> count]

\* rateLimit with the window test written >= instead of >
rateLimitClosedWindow(bk, ip, t) ==
  LET b0 == IF ip \in DOMAIN bk THEN bk[ip] ELSE Bucket(t, 0)
      b1 == IF t - b0.start >= RATE_windowMs THEN Bucket(t, 0) ELSE b0
      b2 == Bucket(b1.start, b1.count + 1)
  IN [buckets |-> [k \in (DOMAIN bk) \cup {ip} |-> IF k = ip THEN b2 ELSE bk[k]],
      allowed |-> b2.count <= RATE_max]

\* rateLimit that compares the count before incrementing it
rateLimitPostIncrement(bk, ip, t) ==
  LET b0 == IF ip \in DOMAIN bk THEN bk[ip] ELSE Bucket(t, 0)
      b1 == IF t - b0.start > RATE_windowMs THEN Bucket(t, 0) ELSE b0
      b2 == Bucket(b1.start, b1.count + 1)
  IN [buckets |-> [k \in (DOMAIN bk) \cup {ip} |-> IF k = ip THEN b2 ELSE bk[k]],
      allowed |-> b1.count <= RATE_max]

\* rateLimit that counts only the requests it allows
rateLimitCountsAllowedOnly(bk, ip, t) ==
  LET b0 == IF ip \in DOMAIN bk THEN bk[ip] ELSE Bucket(t, 0)
      b1 == IF t - b0.start > RATE_windowMs THEN Bucket(t, 0) ELSE b0
      b2 == IF b1.count < RATE_max THEN Bucket(b1.start, b1.count + 1) ELSE b1
  IN [buckets |-> [k \in (DOMAIN bk) \cup {ip} |-> IF k = ip THEN b2 ELSE bk[k]],
      allowed |-> b1.count < RATE_max]

\* rateLimit that restarts the window when it denies
rateLimitDenialRestarts(bk, ip, t) ==
  LET b0 == IF ip \in DOMAIN bk THEN bk[ip] ELSE Bucket(t, 0)
      b1 == IF t - b0.start > RATE_windowMs THEN Bucket(t, 0) ELSE b0
      b2 == IF b1.count + 1 <= RATE_max THEN Bucket(b1.start, b1.count + 1)
            ELSE Bucket(t, b1.count + 1)
  IN [buckets |-> [k \in (DOMAIN bk) \cup {ip} |-> IF k = ip THEN b2 ELSE bk[k]],
      allowed |-> b2.count <= RATE_max]

rateLimit(bk, ip, t) ==
  LET b0 == IF ip \in DOMAIN bk THEN bk[ip] ELSE Bucket(t, 0)
      b1 == IF t - b0.start > RATE_windowMs THEN Bucket(t, 0) ELSE b0
      b2 == Bucket(b1.start, b1.count + 1)
  IN [buckets |-> [k \in (DOMAIN bk) \cup {ip} |-> IF k = ip THEN b2 ELSE bk[k]],
      allowed |-> b2.count <= RATE_max]

(***************************************************************************)
(* Bounds of the model                                                     *)
(***************************************************************************)
MaxTicks == 2          \* the clock advances at most this many ticks
MaxCount == 42         \* a bucket is followed up to this count
MaxServedCount == 1    \* requests reaching the model call are followed up to this bucket count
TickMs == DEFAULT_TIMEOUT_MS
MaxClock == MaxTicks * TickMs

(***************************************************************************)
(* process.env: "" stands for an unset variable                            *)
(***************************************************************************)
Env(provider, orKey, oaKey, model, fallback) ==
  [AI_PROVIDER |-> provider, OPENROUTER_API_KEY |-> orKey, OPENAI_API_KEY |-> oaKey,
   MODEL_TEXT |-> model, MODEL_TEXT_FALLBACK |-> fallback]

Envs ==
  { Env("", "sk-or", "", "", ""),
    Env("", "", "", "", ""),
    Env("OpenAI", "", "sk-oa", "gpt-4o-mini", "gpt-4o"),
    Env("azure", "sk-or", "sk-oa", "", "") }

\* a || b on environment strings
OrStr(a, b) == IF a # "" THEN a ELSE b

(***************************************************************************)
(* Texts of request and response bodies                                    *)
(***************************************************************************)
RECURSIVE MembersText(_)
MembersText(ms) ==
  IF ms = <<>> THEN <<>>
  ELSE <<Key(ms[1][1]), COLON>> \o ms[1][2]
       \o (IF Len(ms) > 1 THEN <<COMMA>> ELSE <<>>) \o MembersText(Tail(ms))

\* the JSON text of an object, given <<name, text of the value>> pairs
ObjText(ms) == <<LB>> \o MembersText(ms) \o <<RB>>
StrText(w) == <<TStr(Word(w))>>

\* s followed by whitespace up to n characters
PadTo(s, n) == s \o <<TWs(n - TextLen(s))>>

AskBody == ObjText(<< <<"task", StrText("ask_radiology")>>,
                      <<"payload", ObjText(<< <<"question", StrText("caries")>> >>)>> >>)
VoiceBody == ObjText(<< <<"task", <<TStr(<<TWs(1), TId("voice_to_report"), TWs(1)>>)>> >>,
                        <<"payload", ObjText(<< <<"temperature", <<TNum(1)>> >>,
                                                <<"transcript", StrText("dictation")>> >>)>>,
                        <<"meta", ObjText(<< <<"lang", StrText("EN-us")>> >>)>> >>)
UnknownTaskBody == ObjText(<< <<"task", StrText("summarize")>> >>)
NoTaskBody == ObjText(<<>>)
BadTaskBody == ObjText(<< <<"task", ObjText(<< <<"toString", <<TNum(1)>> >> >>)>> >>)
NotJsonBody == <<TId("hello")>>
NullBody == <<Tok("null")>>
NumberBody == <<TNum(5)>>

RequestBodies ==
  { JStr(AskBody), JStr(VoiceBody), JStr(UnknownTaskBody), JStr(NoTaskBody),
    JStr(BadTaskBody), JStr(NotJsonBody), JStr(NullBody), JStr(NumberBody), Null,
    JStr(PadTo(AskBody, MAX_BODY_CHARS)), JStr(PadTo(AskBody, MAX_BODY_CHARS + 1)),
    JStr(<<TX(MAX_BODY_CHARS + 1)>>) }

ClientIp == JStr(Word("203.0.113.7"))
SiteOrigin == JStr(Word("https://app.example"))

Obj2(k1, v1, k2, v2) == JObj(SetProp(SetProp(<<>>, k1, v1), k2, v2))

HeadersA == Obj2("origin", SiteOrigin, "client-ip", ClientIp)
HeadersB == Obj2("Origin", SiteOrigin, "x-forwarded-for", ClientIp)
HeadersC == Obj2("x-nf-client-connection-ip", ClientIp, "x-forwarded-for", JStr(Word("10.0.0.1")))

Event(method, headers, body) == [httpMethod |-> method, headers |-> headers, body |-> body]

\* the events offered to the handler; event.headers is undefined in some
Events ==
  {Event(m, hd, JStr(AskBody)) : m \in {"OPTIONS", "GET"}, hd \in {Undef, HeadersA, HeadersC}}
  \cup {Event("POST", hd, JStr(AskBody)) : hd \in {Undef, HeadersB, HeadersC}}
  \cup {Event("POST", HeadersA, b) : b \in RequestBodies}

(***************************************************************************)
(* Upstream responses: the status line and the body text the provider may  *)
(* send.  content is the assistant message of a completion.                *)
(***************************************************************************)
Completion(content) ==
  ObjText(<< <<"choices", <<LK>> \o ObjText(<< <<"message", ObjText(<< <<"content", content>> >>)>> >>) \o <<RK>> >>,
             <<"usage", ObjText(<< <<"total_tokens", <<TNum(9)>> >> >>)>> >>)

AnswerObj == ObjText(<< <<"answer", StrText("ok")>> >>)

\* the raw texts a model may answer with, as JSON string literals
ModelRaw ==
  { AnswerObj,                                                  \* a JSON object
    <<LK, TNum(1), COMMA, TNum(2), RK>>,                        \* a JSON array
    <<TStr(Word("fine"))>>,                                     \* a JSON string
    <<TNum(7)>>,                                                \* a JSON number
    <<Tok("true")>>, <<Tok("false")>>, <<Tok("null")>>,
    <<TId("Here"), TWs(1)>> \o AnswerObj \o <<TWs(1), TId("Thanks")>>,   \* prose around an object
    <<TId("sorry"), TX(CLAMP_MAX)>>,                            \* long plain prose
    <<>> }                                                      \* empty text

OkBodies ==
  {Completion(<<TStr(r)>>) : r \in ModelRaw}
  \cup { Completion(ObjText(<< <<"toString", <<TNum(1)>> >> >>)),   \* content is an object
         ObjText(<<>>),                                          \* no choices
         <<TId("gateway")>> }                                    \* not JSON

ErrorBodies ==
  { ObjText(<< <<"error", ObjText(<< <<"message", StrText("overloaded")>> >>)>> >>),
    ObjText(<< <<"error", StrText("denied")>> >>),
    ObjText(<< <<"message", StrText("unavailable")>> >>),
    ObjText(<< <<"error", ObjText(<< <<"code", <<TNum(5)>> >> >>)>> >>),
    <<TId("gateway")>> }

UpstreamStatuses == {200, 429, 500}
\* Response.ok
StatusOk(status) == status >= 200 /\ status <= 299

\* the bodies a provider sends with a status
BodiesFor(status) == IF StatusOk(status) THEN OkBodies ELSE ErrorBodies

(***************************************************************************)
(* State                                                                   *)
(***************************************************************************)
VARIABLES
  env,       \* process.env, fixed when the process starts
  buckets,   \* RATE.buckets: client identifier -> [start, count]
  clock,     \* Date.now()
  pc,        \* the invocation: "idle", "fetch" (awaiting fetch), "text" (awaiting
             \* res.text()), "done" (returned resp), "threw" (rejected)
  event,     \* the event of the invocation
  h,         \* the invocation's locals
  call,      \* the upstream call in flight
  calls,     \* every callChatCompletion invocation of this handler invocation
  resp,      \* the response returned
  inflight,  \* the number of other invocations suspended in an upstream call
  rateLog    \* history: client identifier -> the rate checks of the last window
             \* length, as <<[at, total, allowed]>> with one entry per instant

vars == <<env, buckets, clock, pc, event, h, call, calls, resp, inflight, rateLog>>

NoEvent == Event("", Undef, Null)
Locals(task, provider, model, fallback, temperature, prompts, headers, attempt) ==
  [task |-> task, provider |-> provider, model |-> model, fallback |-> fallback,
   temperature |-> temperature, prompts |-> prompts, headers |-> headers, attempt |-> attempt]
NoLocals == Locals(<<>>, "", "", "", Undef, NoPrompts, ResponseHeaders(Undef), "none")

\* timer: the setTimeout of fetchWithTimeout is pending
InFlight(model, started, timer, status) ==
  [model |-> model, started |-> started, timer |-> timer, status |-> status]
NoCall == InFlight("", 0, FALSE, 0)

Response(statusCode, headers, body) ==
  [statusCode |-> statusCode, headers |-> headers, body |-> body]
NoResp == Response(0, ResponseHeaders(Undef), Undef)

\* JSON.stringify({ ok:false, error }) is kept as the object it serialises
Failure(error) == Obj2("ok", JBool(FALSE), "error", JStr(<<TId(error)>>))

\* one entry of calls: sent is TRUE once the HTTP request was issued,
\* settled is the time the call returned or threw (-1 while pending),
\* result is how callChatCompletion ended ("ok": it returned), status and
\* text are the response received, err is what run(modelName) threw
CallEntry(attempt, model, prompts, temperature, sent, started, settled, result, status, err) ==
  [attempt |-> attempt, model |-> model, system |-> prompts.system, user |-> prompts.user,
   temperature |-> temperature, sent |-> sent, started |-> started, settled |-> settled,
   result |-> result, status |-> status, text |-> <<>>, err |-> err]

\* the outcome of a handler step: the new values of pc, h, call, calls, resp
Step(p, hh, c, cs, r) == [pc |-> p, h |-> hh, call |-> c, calls |-> cs, resp |-> r]

Apply(k) ==
  /\ pc' = k.pc
  /\ h' = k.h
  /\ call' = k.call
  /\ calls' = k.calls
  /\ resp' = k.resp

(***************************************************************************)
(* callChatCompletion up to its first await: the key check and the start   *)
(* of fetchWithTimeout                                                     *)
(***************************************************************************)
callStart(provider) ==
  IF provider = "openrouter" THEN
    IF env.OPENROUTER_API_KEY = "" THEN Err("Error", <<TId("Server missing OPENROUTER_API_KEY")>>)
    ELSE NoErr
  ELSE IF provider = "openai" THEN
    IF env.OPENAI_API_KEY = "" THEN Err("Error", <<TId("Server missing OPENAI_API_KEY")>>)
    ELSE NoErr
  ELSE Err("Error", <<TId("Unknown AI_PROVIDER")>>)

\* the outer catch of the handler
Respond502(hh, cs, e) ==
  Step("done", hh, NoCall, cs,
       Response(502, hh.headers,
                JObj(SetProp(Failure("AI upstream error").p, "details", JStr(ErrString(e))))))

\* the model name reported by the 200 response
modelUsed(hh) == hh.model

Respond200(hh, cs, parsed, usage) ==
  Step("done", hh, NoCall, cs,
       Response(200, hh.headers,
                JObj([ok |-> JBool(TRUE), task |-> JStr(hh.task), provider |-> JStr(Word(hh.provider)),
                      model_used |-> JStr(Word(modelUsed(hh))), result |-> parsed,
                      usage |-> Or(usage, Null)])))

\* run(fallback) in the inner catch; e is what callChatCompletion throws
\* before it sends anything
fallbackCall(h2, cs, t, e) ==
  IF e # NoErr THEN
    Respond502(h2, Append(cs, CallEntry("fallback", h2.fallback, h2.prompts, h2.temperature,
                                        FALSE, t, t, "failed", 0, e)), e)
  ELSE
    Step("fetch", h2, InFlight(h2.fallback, t, TRUE, 0),
         Append(cs, CallEntry("fallback", h2.fallback, h2.prompts, h2.temperature,
                              TRUE, t, -1, "pending", 0, NoErr)),
         NoResp)

StartFallback(hh, cs, t) ==
  fallbackCall([hh EXCEPT !.attempt = "fallback"], cs, t, callStart(hh.provider))

\* run(model)
primaryCall(h2, t, e) ==
  IF e # NoErr THEN
    StartFallback(h2, <<CallEntry("primary", h2.model, h2.prompts, h2.temperature,
                                  FALSE, t, t, "failed", 0, e)>>, t)
  ELSE
    Step("fetch", h2, InFlight(h2.model, t, TRUE, 0),
         <<CallEntry("primary", h2.model, h2.prompts, h2.temperature,
                     TRUE, t, -1, "pending", 0, NoErr)>>,
         NoResp)

StartPrimary(hh, t) ==
  primaryCall([hh EXCEPT !.attempt = "primary"], t, callStart(hh.provider))

\* the call in flight settles: its entry of calls is closed
Settle(cs, t, result, status, text, e) ==
  [cs EXCEPT ![Len(cs)] = [@ EXCEPT !.settled = t, !.result = result, !.status = status,
                                    !.text = text, !.err = e]]

\* run(modelName) threw e: the inner catch on the primary attempt, the outer
\* catch on the fallback attempt.  result is how callChatCompletion itself ended
OnRunFailure(hh, cs, t, result, status, text, e) ==
  IF hh.attempt = "primary" THEN StartFallback(hh, Settle(cs, t, result, status, text, e), t)
  ELSE Respond502(hh, Settle(cs, t, result, status, text, e), e)

(***************************************************************************)
(* exports.handler, from its entry to its first await or its return        *)
(***************************************************************************)
Threw == Step("threw", NoLocals, NoCall, <<>>, NoResp)
Returned(r) == Step("done", NoLocals, NoCall, <<>>, r)

\* the client identifier of the rate limiter (the headers object exists)
clientIp(headers) ==
  Or(Get(headers, "x-nf-client-connection-ip"),
     Or(Get(headers, "client-ip"),
        Or(Get(headers, "x-forwarded-for"), JStr(Word("unknown")))))

temperatureOf(payload) ==
  IF Get(payload, "temperature").t = "num" THEN Get(payload, "temperature")
  ELSE JNum(DEFAULT_TEMPERATURE)

\* built is buildPrompts(task, payload, meta)
promptGate(headers, t, task, payload, built) ==
  IF built.threw THEN Threw
  ELSE IF built.isNull THEN Returned(Response(400, headers, Failure("Unknown task")))
  ELSE StartPrimary(Locals(task,
                           LowerWord(OrStr(env.AI_PROVIDER, "openrouter")),
                           OrStr(env.MODEL_TEXT, "google/gemma-3-12b-it:free"),
                           OrStr(env.MODEL_TEXT_FALLBACK, "google/gemma-3-4b-it:free"),
                           temperatureOf(payload), built.prompts, headers, "primary"), t)

taskTrimmed(headers, t, task, payload, meta) ==
  promptGate(headers, t, task, payload, buildPrompts(task, payload, meta))

\* taskStr is (req.task || '').toString()
taskGate(headers, t, taskStr, payload, meta) ==
  IF taskStr.threw THEN Threw
  ELSE taskTrimmed(headers, t, Trim(taskStr.s), payload, meta)

\* req is safeJsonParse(rawBody)
parseGate(headers, t, req) ==
  IF ~Truthy(req) THEN Returned(Response(400, headers, Failure("Invalid JSON")))
  ELSE taskGate(headers, t, ToStr(Or(Get(req, "task"), JStr(<<>>))),
                Or(Get(req, "payload"), EmptyObj), Or(Get(req, "meta"), EmptyObj))

\* rawBody is (event.body || '').toString()
sizeGate(headers, t, rawBody) ==
  IF rawBody.threw THEN Threw
  ELSE IF TextLen(rawBody.s) > MAX_BODY_CHARS THEN
    Returned(Response(413, headers, Failure("Payload too large")))
  ELSE parseGate(headers, t, safeJsonParse(rawBody.s))

\* the part of the handler after the rate limiter let the request through
afterRateLimit(ev, headers, t) ==
  sizeGate(headers, t, ToStr(Or(ev.body, JStr(<<>>))))

\* step: the outcome; bk: RATE.buckets afterwards
Outcome(step, bk) == [step |-> step, bk |-> bk]

\* rl is rateLimit(ip)
rateGate(ev, headers, t, rl) ==
  IF ~rl.allowed THEN
    Outcome(Returned(Response(429, headers, Failure("Rate limit exceeded"))), rl.buckets)
  ELSE Outcome(afterRateLimit(ev, headers, t), rl.buckets)

\* methodGate with the rate limiter charged before the method is rejected
methodGateChargesFirst(ev, bk, t, headers) ==
  IF ev.httpMethod = "OPTIONS" THEN Outcome(Returned(Response(204, headers, JStr(<<>>))), bk)
  ELSE IF ev.headers.t \in {"undef", "null"} THEN Outcome(Threw, bk)
  ELSE IF ev.httpMethod # "POST" THEN
    Outcome(Returned(Response(405, headers, Failure("Method Not Allowed"))),
            rateLimit(bk, clientIp(ev.headers), t).buckets)
  ELSE rateGate(ev, headers, t, rateLimit(bk, clientIp(ev.headers), t))

methodGate(ev, bk, t, headers) ==
  IF ev.httpMethod = "OPTIONS" THEN Outcome(Returned(Response(204, headers, JStr(<<>>))), bk)
  ELSE IF ev.httpMethod # "POST" THEN
    Outcome(Returned(Response(405, headers, Failure("Method Not Allowed"))), bk)
  ELSE IF ev.headers.t \in {"undef", "null"} THEN
    \* event.headers['x-nf-client-connection-ip'] raises a TypeError
    Outcome(Threw, bk)
  ELSE rateGate(ev, headers, t, rateLimit(bk, clientIp(ev.headers), t))

handlerStart(ev, bk, t) ==
  methodGate(ev, bk, t,
             ResponseHeaders(Or(Get(ev.headers, "origin"), Get(ev.headers, "Origin"))))

(***************************************************************************)
(* callChatCompletion and run(modelName) once the response body arrived    *)
(***************************************************************************)
errorOf(msg) ==
  IF msg.threw THEN Err("TypeError", <<TId("Cannot convert object to primitive value")>>)
  ELSE Err("Error", msg.s)

\* upstreamMessage with the status appended to the provider's message
upstreamMessageWithStatus(data, status) ==
  IF Truthy(data) /\ Truthy(Or(Get(Get(data, "error"), "message"), Or(Get(data, "error"), Get(data, "message"))))
  THEN JStr(ToStr(Or(Get(Get(data, "error"), "message"), Or(Get(data, "error"), Get(data, "message")))).s
            \o <<TWs(1), TNum(status)>>)
  ELSE JStr(<<TId("Upstream error"), COLON, TWs(1), TNum(status)>>)

\* (data && (data.error?.message || data.error || data.message))
\*   || `Upstream error: ${res.status}`
upstreamMessage(data, status) ==
  Or(IF Truthy(data)
     THEN Or(Get(Get(data, "error"), "message"), Or(Get(data, "error"), Get(data, "message")))
     ELSE data,
     JStr(<<TId("Upstream error"), COLON, TWs(1), TNum(status)>>))

\* the error thrown for a non-ok response
upstreamError(data, status) == errorOf(ToStr(upstreamMessage(data, status)))

\* { raw: clampString(out.raw, 50_000) }
rawWrapper(rawStr) == JObj([raw |-> JStr(clampString(rawStr.s, CLAMP_MAX))])

\* ex is extractJson(out.raw)
withParsed(hh, cs, t, status, text, content, usage, ex) ==
  IF ex.threw THEN
    OnRunFailure(hh, cs, t, "ok", status, text,
                 Err("TypeError", <<TId("toString is not a function")>>))
  ELSE IF ~Truthy(ex.val) THEN
    Respond200(hh, Settle(cs, t, "ok", status, text, NoErr), rawWrapper(ToStr(content)), usage)
  ELSE Respond200(hh, Settle(cs, t, "ok", status, text, NoErr), ex.val, usage)

withContent(hh, cs, t, status, text, content, usage) ==
  withParsed(hh, cs, t, status, text, content, usage, extractJson(content))

\* data is safeJsonParse(text)
withData(hh, cs, t, status, text, data) ==
  IF ~StatusOk(status) THEN
    OnRunFailure(hh, cs, t, "failed", status, text, upstreamError(data, status))
  ELSE withContent(hh, cs, t, status, text,
                   Or(Get(Get(Get0(Get(data, "choices")), "message"), "content"), JStr(<<>>)),
                   Get(data, "usage"))

afterText(hh, cs, t, status, text) == withData(hh, cs, t, status, text, safeJsonParse(text))

(***************************************************************************)
(* Actions                                                                 *)
(***************************************************************************)
Init ==
  /\ env \in Envs
  /\ buckets = [k \in {} |-> Bucket(0, 0)]
  /\ clock = 0
  /\ pc = "idle"
  /\ event = NoEvent
  /\ h = NoLocals
  /\ call = NoCall
  /\ calls = <<>>
  /\ resp = NoResp
  /\ inflight = 0
  /\ rateLog = [k \in {} |-> <<>>]

(***************************************************************************)
(* The history of rate checks: which requests reached the rate check, and  *)
(* which of them the handler did not answer with 429.                      *)
(***************************************************************************)
LogEntry(at, total, allowed) == [at |-> at, total |-> total, allowed |-> allowed]

\* one more check of a client at instant t, entries older than a window dropped
NotedIn(kept, t, ok) ==
  IF kept # <<>> /\ kept[Len(kept)].at = t
  THEN [kept EXCEPT ![Len(kept)] =
          LogEntry(t, @.total + 1, @.allowed + (IF ok THEN 1 ELSE 0))]
  ELSE Append(kept, LogEntry(t, 1, IF ok THEN 1 ELSE 0))

Noted(log, ip, t, ok) ==
  [k \in (DOMAIN log) \cup {ip} |->
     IF k = ip
     THEN NotedIn(SelectSeq(IF ip \in DOMAIN log THEN log[ip] ELSE <<>>,
                            LAMBDA e : e.at >= t - RATE_windowMs), t, ok)
     ELSE log[k]]

\* a POST event with a headers object reaches the rate check
Logged(log, ev, out, t) ==
  IF ev.httpMethod = "POST" /\ ev.headers.t = "obj"
  THEN Noted(log, clientIp(ev.headers), t,
             ~(out.step.pc = "done" /\ out.step.resp.statusCode = 429))
  ELSE log

\* the platform invokes the handler with an event
Invoke(ev) ==
  /\ pc = "idle"
  /\ \E out \in {handlerStart(ev, buckets, clock)} :
       /\ \A k \in DOMAIN out.bk : out.bk[k].count <= MaxCount
       /\ out.step.pc = "fetch" => \A k \in DOMAIN out.bk : out.bk[k].count <= MaxServedCount
       /\ buckets' = out.bk
       /\ rateLog' = Logged(rateLog, ev, out, clock)
       /\ Apply(out.step)
  /\ event' = ev
  /\ UNCHANGED <<inflight, env, clock>>

\* fetch resolves with the response headers; the finally clears the timer and
\* callChatCompletion awaits res.text()
FetchResolve(status) ==
  /\ pc = "fetch"
  /\ pc' = "text"
  /\ call' = [call EXCEPT !.timer = FALSE, !.status = status]
  /\ UNCHANGED <<inflight, rateLog, env, buckets, clock, event, h, calls, resp>>

\* fetch rejects with a network error
FetchReject ==
  /\ pc = "fetch"
  /\ Apply(OnRunFailure(h, calls, clock, "failed", 0, <<>>, Err("TypeError", <<TId("fetch failed")>>)))
  /\ UNCHANGED <<inflight, rateLog, env, buckets, clock, event>>

\* the timer fires: ctrl.abort() rejects the pending fetch
TimerAbort ==
  /\ pc = "fetch"
  /\ call.timer
  /\ clock - call.started >= DEFAULT_TIMEOUT_MS
  /\ Apply(OnRunFailure(h, calls, clock, "failed", 0, <<>>, Err("AbortError", <<TId("This operation was aborted")>>)))
  /\ UNCHANGED <<inflight, rateLog, env, buckets, clock, event>>

\* res.text() resolves with the body
TextResolve(text) ==
  /\ pc = "text"
  /\ text \in BodiesFor(call.status)
  /\ Apply(afterText(h, calls, clock, call.status, text))
  /\ UNCHANGED <<inflight, rateLog, env, buckets, clock, event>>

\* res.text() rejects: the connection broke while the body was read
TextReject ==
  /\ pc = "text"
  /\ Apply(OnRunFailure(h, calls, clock, "failed", call.status, <<>>, Err("TypeError", <<TId("terminated")>>)))
  /\ UNCHANGED <<inflight, rateLog, env, buckets, clock, event>>

\* time passes while an upstream call is awaited; a pending timer fires no
\* later than its delay
Tick ==
  /\ pc \in {"fetch", "text"}
  /\ clock + TickMs <= MaxClock
  /\ (pc = "fetch" /\ call.timer) => clock + TickMs - call.started <= DEFAULT_TIMEOUT_MS
  /\ clock' = clock + TickMs
  /\ UNCHANGED <<inflight, rateLog, env, buckets, pc, event, h, call, calls, resp>>

\* the invocation is over; the process waits for the next event
Finish ==
  /\ pc \in {"done", "threw"}
  /\ pc' = "idle"
  /\ event' = NoEvent
  /\ h' = NoLocals
  /\ call' = NoCall
  /\ calls' = <<>>
  /\ resp' = NoResp
  /\ UNCHANGED <<inflight, rateLog, env, buckets, clock>>

Next ==
  \/ \E ev \in Events : Invoke(ev)
  \/ \E status \in UpstreamStatuses : FetchResolve(status)
  \/ FetchReject
  \/ TimerAbort
  \/ \E text \in OkBodies \cup ErrorBodies : TextResolve(text)
  \/ TextReject
  \/ Tick
  \/ Finish

Spec == Init /\ [][Next]_vars

(***************************************************************************)
(* The rate limiter over time: invocations that end at a gate, from two    *)
(* clients, with the clock advancing between them                          *)
(***************************************************************************)
MaxWindows == 1        \* the clock of SpecRate runs for this many windows
MaxQuietCount == 1     \* the second client's bucket is followed up to this count
MaxRateClock == MaxWindows * (RATE_windowMs + 1)

QuietIp == JStr(Word("unknown"))

\* the instants of SpecRate: the last instant of the first window, and the
\* first instant after each window
RateTimes ==
  {0, RATE_windowMs} \cup {w * (RATE_windowMs + 1) : w \in 1..MaxWindows}

RateEvents ==
  { Event("POST", HeadersA, JStr(NotJsonBody)),
    Event("POST", EmptyObj, JStr(NotJsonBody)) }

Advance(d) ==
  /\ pc = "idle"
  /\ clock + d <= MaxRateClock
  /\ clock' = clock + d
  /\ UNCHANGED <<inflight, rateLog, env, buckets, pc, event, h, call, calls, resp>>

InitRate == Init /\ env = Env("", "sk-or", "", "", "")

NextRate ==
  \/ \E ev \in RateEvents :
       /\ Invoke(ev)
       /\ QuietIp \in DOMAIN buckets' => buckets'[QuietIp].count <= MaxQuietCount
  \/ \E t \in RateTimes : t > clock /\ Advance(t - clock)
  \/ Finish

SpecRate == InitRate /\ [][NextRate]_vars

\* one client that keeps sending requests while time advances
FloodEvent == Event("POST", HeadersA, JStr(NotJsonBody))

NextFlood ==
  \/ Invoke(FloodEvent)
  \/ \E t \in RateTimes : t > clock /\ Advance(t - clock)
  \/ Finish

\* the client keeps sending and time keeps advancing: a step is taken
\* whenever one is possible
SpecFlood == InitRate /\ [][NextFlood]_vars /\ WF_vars(NextFlood)

(***************************************************************************)
(* Properties                                                              *)
(***************************************************************************)
Done == pc = "done"
Status == resp.statusCode
BodyText(ev) == IF ev.body.t = "str" THEN ev.body.s ELSE <<>>
IsFailureBody(b) ==
  b.t = "obj" /\ Get(b, "ok") = JBool(FALSE) /\ Get(b, "error").t = "str"

\* C1: a 200 response names in model_used the model of the call that
\* succeeded: the primary model if the primary call succeeded, the fallback
\* model if the fallback call did.
C1_ModelUsedIsTheModelThatSucceeded ==
  (Done /\ Status = 200) =>
    Get(resp.body, "model_used") = JStr(Word(calls[Len(calls)].model))

\* C2: the fallback call is issued if and only if the primary call failed;
\* a primary call that returned (a 2xx response, whatever its content) never
\* triggers it; the fallback starts after the primary settled, with the same
\* prompts and temperature; at most two calls are made.
C2_FallbackIffPrimaryFailed ==
  /\ Len(calls) <= 2
  /\ calls # <<>> => calls[1].attempt = "primary"
  /\ (calls # <<>> /\ calls[1].result = "failed") => Len(calls) = 2
  /\ Len(calls) = 2 =>
       /\ calls[1].result = "failed"
       /\ calls[2].attempt = "fallback"
       /\ calls[1].settled # -1 /\ calls[2].started >= calls[1].settled
       /\ calls[2].system = calls[1].system
       /\ calls[2].user = calls[1].user
       /\ calls[2].temperature = calls[1].temperature

\* C3: a request that reached the model call ends with 502, ok:false and a
\* string detail if and only if the primary and the fallback call both
\* failed; otherwise it ends with 200 and ok:true.
C3_502IffBothCallsFailed ==
  (Done /\ calls # <<>>) =>
    IF Len(calls) = 2 /\ calls[1].result = "failed" /\ calls[2].result = "failed"
    THEN Status = 502 /\ IsFailureBody(resp.body) /\ Get(resp.body, "details").t = "str"
    ELSE Status = 200 /\ Get(resp.body, "ok") = JBool(TRUE)

\* the gates of the handler as the specification lists them: the status of
\* the first gate that fails, 0 when every gate passes
ParsesAsJson(text) == JsonParse(text).ok
TaskInSet(text) ==
  LET task == Get(JsonParse(text).val, "task") IN
  task.t = "str" /\ \E name \in Tasks : Trim(task.s) = Word(name)

GateStatus(ev, denied) ==
  IF ev.httpMethod # "POST" THEN 405
  ELSE IF denied THEN 429
  ELSE IF TextLen(BodyText(ev)) > MAX_BODY_CHARS THEN 413
  ELSE IF ~ParsesAsJson(BodyText(ev)) THEN 400
  ELSE IF ~TaskInSet(BodyText(ev)) THEN 400
  ELSE 0

RateDenied(ev) ==
  /\ ev.httpMethod = "POST"
  /\ clientIp(ev.headers) \in DOMAIN buckets
  /\ buckets[clientIp(ev.headers)].count > RATE_max

\* C4: every non-OPTIONS request is answered, and the response is decided by
\* the first gate that fails, in the order method (405), rate limit (429),
\* body size (413, only above 250000 characters), JSON parse (400), task
\* lookup (400); a request that ends with a 4xx status issued no upstream
\* call.
C4_FirstFailingGateDecides ==
  (pc \in {"done", "threw"} /\ event.httpMethod # "OPTIONS") =>
    /\ Done
    /\ GateStatus(event, RateDenied(event)) # 0 =>
         Status = GateStatus(event, RateDenied(event))
    /\ GateStatus(event, RateDenied(event)) = 0 => Status \in {200, 502}
    /\ (Status >= 400 /\ Status <= 499) => calls = <<>>

\* C5: per client, the k-th call since the window start is allowed iff
\* k <= 40 (the handler answers 429 otherwise); the first call more than
\* 60000 ms after the window start resets the bucket to start = now,
\* count = 1 and is allowed; other clients' buckets are untouched.
C5_WindowCounter ==
  [][(pc = "idle" /\ pc' = "done" /\ event'.httpMethod = "POST") =>
       LET ip == clientIp(event'.headers)
           fresh == ip \notin DOMAIN buckets \/ clock - buckets[ip].start > RATE_windowMs
           k == IF fresh THEN 1 ELSE buckets[ip].count + 1
       IN /\ DOMAIN buckets' = (DOMAIN buckets) \cup {ip}
          /\ buckets'[ip].count = k
          /\ buckets'[ip].start = (IF fresh THEN clock ELSE buckets[ip].start)
          /\ (resp'.statusCode = 429) <=> (k > RATE_max)
          /\ \A other \in (DOMAIN buckets) \ {ip} : buckets'[other] = buckets[other]
    ]_vars

\* after a window reset the 41st call of the new window is denied, while the
\* other client has a bucket of its own
C5_Witness ==
  /\ Done /\ Status = 429
  /\ buckets[clientIp(event.headers)] = Bucket(RATE_windowMs + 1, RATE_max + 1)
  /\ QuietIp \in DOMAIN buckets /\ clientIp(event.headers) # QuietIp

\* C6: the result of a 200 response is always a JSON object: the object
\* recovered from the model's text or the wrapper {raw: text}.
C6_ResultIsAnObject ==
  (Done /\ Status = 200) => Get(resp.body, "result").t = "obj"

\* C7: every invocation returns a response, it never throws; a response
\* with a failure status carries ok:false and a string error.
C7_HandlerNeverThrows ==
  /\ pc # "threw"
  /\ (Done /\ Status >= 400) => IsFailureBody(resp.body)

\* C8: an upstream call settles no later than 25000 ms after it started,
\* whether the provider stalls before the headers or in the body.
C8_CallSettlesWithinTimeout ==
  /\ pc \in {"fetch", "text"} => clock - call.started <= DEFAULT_TIMEOUT_MS
  /\ \A i \in 1..Len(calls) :
       calls[i].settled # -1 => calls[i].settled - calls[i].started <= DEFAULT_TIMEOUT_MS

\* the key of the selected provider is absent
KeyMissing ==
  \/ h.provider = "openrouter" /\ env.OPENROUTER_API_KEY = ""
  \/ h.provider = "openai" /\ env.OPENAI_API_KEY = ""

\* C9: with the provider's key absent the call fails without an HTTP
\* request, the upstream client is not invoked again with the fallback
\* model, and the request ends with 502.
C9_MissingKeyIsNotRetried ==
  (calls # <<>> /\ KeyMissing) =>
    /\ \A i \in 1..Len(calls) : ~calls[i].sent
    /\ Len(calls) = 1
    /\ Done /\ Status = 502

\* text t holds the decimal literal n
HasNumber(t, n) == \E i \in 1..Len(t) : t[i] = TNum(n)

FailedWithStatus(c) == c.result = "failed" /\ c.status # 0 /\ ~StatusOk(c.status) /\ c.text # <<>>

\* C10 as claimed: whenever the provider answers with a non-success status
\* the error message contains the status code, whatever the body carries.
C10_ErrorNamesStatusAlways ==
  \A i \in 1..Len(calls) :
    FailedWithStatus(calls[i]) => HasNumber(calls[i].err.message, calls[i].status)

\* the field of a provider's error body that carries its message:
\* error.message, else error, else message; undefined when it has none
ProviderField(text) ==
  LET data == safeJsonParse(text) IN
  IF ~Truthy(data) THEN Undef
  ELSE IF Truthy(Get(Get(data, "error"), "message")) THEN Get(Get(data, "error"), "message")
  ELSE IF Truthy(Get(data, "error")) THEN Get(data, "error")
  ELSE IF Truthy(Get(data, "message")) THEN Get(data, "message")
  ELSE Undef

\* C10 amended: the error message contains the status code when the body
\* carries no error or message field; when the body carries one, the error
\* message is derived from that field alone (it is the field when the field
\* is a string) and the status code is not added.
C10_ErrorNamesStatusOnlyWithoutMessage ==
  \A i \in 1..Len(calls) :
    FailedWithStatus(calls[i]) =>
      IF ProviderField(calls[i].text) = Undef
      THEN HasNumber(calls[i].err.message, calls[i].status)
      ELSE /\ ~HasNumber(calls[i].err.message, calls[i].status)
           /\ ProviderField(calls[i].text).t = "str" =>
                calls[i].err.message = ProviderField(calls[i].text).s

\* both cases happened in one request: the primary call failed on a body
\* with a message, the fallback call on a body without one
C10_Witness ==
  /\ Len(calls) = 2
  /\ FailedWithStatus(calls[1]) /\ ProviderField(calls[1].text).t = "str"
  /\ FailedWithStatus(calls[2]) /\ ProviderField(calls[2].text) = Undef
(***************************************************************************)
(* The prompt builder over the task and the two lang fields of a request:  *)
(* with no API key the invocation runs to its response without awaiting,   *)
(* and the call log holds the prompts that buildPrompts returned           *)
(***************************************************************************)
Absent == <<>>     \* the member is left out of the object
ToStringObjText == ObjText(<< <<"toString", <<TNum(1)>> >> >>)

LangTexts ==
  { Absent, StrText("en"), StrText("EN-us"), StrText("English"), StrText("ar"),
    StrText("fr"), StrText("ben"), ToStringObjText }

TaskTexts ==
  { Absent, StrText(""), StrText("summarize") , <<TStr(<<TWs(1), TId("ask_radiology"), TWs(1)>>)>> }
  \cup { StrText(name) : name \in Tasks }

MemberIf(name, text) == IF text = Absent THEN <<>> ELSE << <<name, text>> >>

PromptBody(task, metaLang, payloadLang) ==
  ObjText(MemberIf("task", task)
          \o << <<"payload", ObjText(MemberIf("lang", payloadLang))>> >>
          \o << <<"meta", ObjText(MemberIf("lang", metaLang))>> >>)

PromptEvents ==
  { Event("POST", HeadersA, JStr(PromptBody(task, ml, pl))) :
      task \in TaskTexts, ml \in LangTexts, pl \in LangTexts }

InitPrompts == Init /\ env = Env("", "", "", "", "")

NextPrompts ==
  \/ \E ev \in PromptEvents : Invoke(ev)
  \/ Finish

SpecPrompts == InitPrompts /\ [][NextPrompts]_vars

Ended == pc \in {"done", "threw"}
MetaLang(ev) == Get(Get(safeJsonParse(BodyText(ev)), "meta"), "lang")
PayloadLang(ev) == Get(Get(safeJsonParse(BodyText(ev)), "payload"), "lang")
\* v, compared case-insensitively, starts with "en"
IsEn(v) == v.t = "str" /\ StartsWithEn(ToLower(v.s))
\* the prompts of a request are those of its first call
SelectedLang == calls[1].system[2]

\* C11: for a request with a known task that reaches the prompt builder,
\* the English prompts are selected if and only if meta.lang or payload.lang
\* starts with "en" (case-insensitively), Arabic in every other case; in
\* particular English when only payload.lang starts with "en" and meta.lang
\* has another value.
C11_EnglishIffEitherLangIsEn ==
  (Ended /\ event.httpMethod = "POST" /\ ~RateDenied(event) /\ TaskInSet(BodyText(event))) =>
    /\ Done /\ calls # <<>>
    /\ SelectedLang = (IF IsEn(MetaLang(event)) \/ IsEn(PayloadLang(event)) THEN "en" ELSE "ar")

\* C13: a request that reaches the task lookup gets prompts (and goes on to
\* the model call) when its trimmed task is one of the four task names,
\* whatever its payload and meta, and is answered 400 "Unknown task" exactly
\* when the trimmed task is outside that set or missing.
C13_PromptsExactlyForTheFourTasks ==
  (Ended /\ event.httpMethod = "POST" /\ ~RateDenied(event)
     /\ TextLen(BodyText(event)) <= MAX_BODY_CHARS /\ Truthy(safeJsonParse(BodyText(event)))) =>
    /\ Done
    /\ TaskInSet(BodyText(event)) => calls # <<>> /\ Status # 400
    /\ ~TaskInSet(BodyText(event)) =>
         Status = 400 /\ resp.body = Failure("Unknown task") /\ calls = <<>>
\* the Origin header of a request, "*" when it has none
RequestOrigin(ev) ==
  IF Get(ev.headers, "origin").t = "str" THEN Get(ev.headers, "origin")
  ELSE IF Get(ev.headers, "Origin").t = "str" THEN Get(ev.headers, "Origin")
  ELSE JStr(Word("*"))

\* C12: every response of the handler (204, 405, 429, 413, 400, 200, 502)
\* carries Access-Control-Allow-Origin, equal to the request's Origin header
\* when it has one and "*" otherwise, Vary: Origin, the allowed headers and
\* methods, and Content-Type: application/json; charset=utf-8.
C12_EveryResponseCarriesCorsHeaders ==
  Done =>
    /\ resp.headers.AllowOrigin = RequestOrigin(event)
    /\ resp.headers.Vary = "Origin"
    /\ resp.headers.AllowHeaders = "Content-Type, Authorization"
    /\ resp.headers.AllowMethods = "POST, OPTIONS"
    /\ resp.headers.ContentType = "application/json; charset=utf-8"

\* a 502 after two failed calls echoes the Origin header of the request
C12_Witness ==
  /\ Done /\ Status = 502 /\ Len(calls) = 2
  /\ Get(event.headers, "Origin") = SiteOrigin
  /\ resp.headers.AllowOrigin = SiteOrigin

\* C15: an OPTIONS request and a request with any method other than POST
\* leave the rate limiter's buckets unchanged: no bucket is created, no
\* count and no window start changes.
C15_NonPostLeavesBucketsUnchanged ==
  [][(pc = "idle" /\ pc' # "idle" /\ event'.httpMethod # "POST") => buckets' = buckets]_vars

\* a GET of a client that has used its whole quota was answered 405 and the
\* client's bucket still holds 40
C15_Witness ==
  /\ Done /\ Status = 405 /\ event.httpMethod = "GET"
  /\ clientIp(event.headers) \in DOMAIN buckets
  /\ buckets[clientIp(event.headers)].count = RATE_max
\* the requests of log that were allowed at an instant in [lo, hi)
RECURSIVE AllowedBetween(_, _, _)
AllowedBetween(log, lo, hi) ==
  IF log = <<>> THEN 0
  ELSE (IF Head(log).at >= lo /\ Head(log).at < hi THEN Head(log).allowed ELSE 0)
       + AllowedBetween(Tail(log), lo, hi)

\* the rate checks of log at an instant not before lo
RECURSIVE ChecksSince(_, _)
ChecksSince(log, lo) ==
  IF log = <<>> THEN 0
  ELSE (IF Head(log).at >= lo THEN Head(log).total ELSE 0) + ChecksSince(Tail(log), lo)

\* the requests a client was allowed in the interval of one window length
\* that begins with the i-th instant of its history
AllowedInIntervalAt(ip, i) ==
  AllowedBetween(rateLog[ip], rateLog[ip][i].at, rateLog[ip][i].at + RATE_windowMs)

\* the requests a client was allowed since the start of its current window
AllowedInWindow(ip) == AllowedBetween(rateLog[ip], buckets[ip].start, clock + 1)

\* C14 as claimed: a sliding window, at most 40 requests of a client are
\* allowed in every interval of 60000 ms, wherever the interval lies.
C14_AtMostMaxInEveryInterval ==
  \A ip \in DOMAIN rateLog : \A i \in 1..Len(rateLog[ip]) :
    AllowedInIntervalAt(ip, i) <= RATE_max

\* C14 amended: a fixed window, at most 40 requests of a client are allowed
\* between a window start and the next reset; an interval of 60000 ms that
\* straddles a reset may hold more than 40 allowed requests, never more than
\* twice 40.
C14_AtMostMaxInEveryWindow ==
  \A ip \in DOMAIN rateLog :
    /\ AllowedInWindow(ip) <= RATE_max
    /\ \A i \in 1..Len(rateLog[ip]) : AllowedInIntervalAt(ip, i) <= 2 * RATE_max

\* an interval of 60000 ms straddles a reset and holds more than 40 allowed
\* requests of one client
C14_Witness ==
  \E ip \in DOMAIN rateLog : \E i \in 1..Len(rateLog[ip]) :
    /\ AllowedInIntervalAt(ip, i) > RATE_max
    /\ rateLog[ip][i].at < buckets[ip].start

FloodDenied == Done /\ Status = 429 /\ clientIp(event.headers) = ClientIp
FloodAllowed ==
  Done /\ Status # 429 /\ event.httpMethod = "POST" /\ clientIp(event.headers) = ClientIp
\* no instant of the model lies more than a window after the window start
HorizonReached ==
  ClientIp \in DOMAIN buckets /\ buckets[ClientIp].start + RATE_windowMs >= MaxRateClock

\* C17: a denied call increments the count and leaves the window start
\* unchanged; a request made more than 60000 ms after the window start is
\* allowed; a client that keeps sending requests is, once denied, allowed
\* again when time has advanced past the window (within the instants of the
\* model).
C17_DenialsDoNotExtendLockout ==
  /\ [][(pc = "idle" /\ pc' = "done" /\ event'.httpMethod = "POST") =>
          /\ resp'.statusCode = 429 =>
               /\ clientIp(event'.headers) \in DOMAIN buckets
               /\ buckets'[clientIp(event'.headers)] =
                    Bucket(buckets[clientIp(event'.headers)].start,
                           buckets[clientIp(event'.headers)].count + 1)
          /\ (/\ clientIp(event'.headers) \in DOMAIN buckets
              /\ clock - buckets[clientIp(event'.headers)].start > RATE_windowMs)
               => resp'.statusCode # 429
     ]_vars
  /\ FloodDenied ~> (FloodAllowed \/ HorizonReached)

\* the client was denied at the last instant of a window and is allowed at
\* the first instant after it
C17_Witness ==
  /\ FloodAllowed
  /\ buckets[ClientIp] = Bucket(RATE_windowMs + 1, 1)
  /\ \E i \in 1..Len(rateLog[ClientIp]) :
       /\ rateLog[ClientIp][i].at = RATE_windowMs
       /\ rateLog[ClientIp][i].allowed < rateLog[ClientIp][i].total
(***************************************************************************)
(* Concurrent invocations in one process.  An invocation runs without      *)
(* interruption up to its first await, so another invocation runs its      *)
(* start while this one is suspended; the others that are suspended in an  *)
(* upstream call are counted, their continuations do not touch RATE.       *)
(***************************************************************************)
MaxInflight == 2       \* other invocations suspended at the same time

\* another invocation starts: it runs to its return or to its first await
Arrive(ev) ==
  /\ \E out \in {handlerStart(ev, buckets, clock)} :
       /\ \A k \in DOMAIN out.bk : out.bk[k].count <= MaxCount
       /\ buckets' = out.bk
       /\ rateLog' = Logged(rateLog, ev, out, clock)
       /\ inflight' = (IF out.step.pc = "fetch" THEN inflight + 1 ELSE inflight)
       /\ inflight' <= MaxInflight
  /\ UNCHANGED <<env, clock, pc, event, h, call, calls, resp>>

\* the upstream call of another invocation settles and it runs to its return
Depart ==
  /\ inflight > 0
  /\ inflight' = inflight - 1
  /\ UNCHANGED <<rateLog, env, buckets, clock, pc, event, h, call, calls, resp>>

ConcEvents ==
  { Event("POST", HeadersA, JStr(AskBody)),
    Event("POST", HeadersA, JStr(NotJsonBody)),
    Event("POST", HeadersA, JStr(<<TX(MAX_BODY_CHARS + 1)>>)),
    Event("POST", HeadersA, JStr(BadTaskBody)),
    Event("POST", EmptyObj, JStr(NotJsonBody)),
    Event("GET", HeadersA, JStr(AskBody)) }

QuietWithin(bk) == QuietIp \in DOMAIN bk => bk[QuietIp].count <= MaxQuietCount

InitConc == Init /\ env = Env("", "sk-or", "", "", "")

NextConc ==
  \/ \E ev \in ConcEvents : Invoke(ev) /\ QuietWithin(buckets')
  \/ \E ev \in ConcEvents : Arrive(ev) /\ QuietWithin(buckets')
  \/ FetchResolve(200)
  \/ FetchReject
  \/ TextResolve(Completion(<<TStr(AnswerObj)>>))
  \/ Advance(RATE_windowMs + 1)
  \/ Depart
  \/ Finish

SpecConc == InitConc /\ [][NextConc]_vars

\* C16: under every interleaving of invocations no increment is lost: the
\* count of a client's bucket is the number of its POST requests that
\* reached the rate check since the window start, those answered 429, 413
\* or 400 included, and at most 40 of them were allowed, also while upstream
\* calls overlap.
C16_NoIncrementIsLost ==
  \A ip \in DOMAIN buckets :
    /\ ip \in DOMAIN rateLog
    /\ buckets[ip].count = ChecksSince(rateLog[ip], buckets[ip].start)
    /\ AllowedInWindow(ip) <= RATE_max

\* the 41st request of a client was counted and denied while this
\* invocation and another one were both suspended in an upstream call
C16_Witness ==
  /\ pc = "fetch" /\ inflight > 0
  /\ buckets[ClientIp].count = RATE_max + 1
  /\ AllowedInWindow(ClientIp) = RATE_max
(***************************************************************************)
(* The simple proxy, netlify/functions/ai.js.  It shares no state with the *)
(* gateway; env holds AI_URL and AI_KEY, the response headers are a record *)
(* whose fields are the header names that are present.                     *)
(***************************************************************************)
UPSTREAM_BODY_CHARS == 2000

ProxyEnv(url, key) == [AI_URL |-> url, AI_KEY |-> key]
ProxyEnvs ==
  { ProxyEnv(url, key) : url \in {"", "https://ai.example/v1"}, key \in {"", "sk-ai"} }

\* const corsHeaders = { ... }
proxyCorsHeaders ==
  [AllowOrigin |-> "*",
   AllowHeaders |-> "Content-Type, Authorization",
   AllowMethods |-> "POST, OPTIONS"]

\* { ...corsHeaders, "Content-Type": "application/json" }
proxyJsonHeaders ==
  [AllowOrigin |-> proxyCorsHeaders.AllowOrigin,
   AllowHeaders |-> proxyCorsHeaders.AllowHeaders,
   AllowMethods |-> proxyCorsHeaders.AllowMethods,
   ContentType |-> "application/json"]

\* the return of the catch block
proxyCrash(e) ==
  Response(500, [ContentType |-> "application/json"],
           JObj(SetProp(Failure("Function error").p, "details", JStr(ErrString(e)))))

proxyMissingEnv(e) ==
  Response(500, proxyJsonHeaders,
           JObj(SetProp(Failure("Missing ENV").p, "details",
                        Obj2("hasAIURL", JBool(e.AI_URL # ""), "hasAIKEY", JBool(e.AI_KEY # "")))))

proxyUpstreamError(status, text) ==
  Response(502, proxyJsonHeaders,
           JObj(SetProp(SetProp(Failure("AI upstream error").p, "upstream_status", JNum(10 * status)),
                        "upstream_body", JStr(Slice(text, UPSTREAM_BODY_CHARS)))))

\* the handler from its entry to its return or to the await of fetch;
\* parsed is JSON.parse(event.body || "{}")
proxyStart(ev, e, t, parsed) ==
  IF ev.httpMethod = "OPTIONS" THEN
    Step("done", NoLocals, NoCall, <<>>, Response(204, proxyCorsHeaders, JStr(<<>>)))
  ELSE IF ~parsed.ok THEN
    Step("done", NoLocals, NoCall, <<>>,
         proxyCrash(Err("SyntaxError", <<TId("Unexpected token")>>)))
  ELSE IF e.AI_URL = "" \/ e.AI_KEY = "" THEN
    Step("done", NoLocals, NoCall, <<>>, proxyMissingEnv(e))
  ELSE Step("fetch", NoLocals, InFlight(e.AI_URL, t, FALSE, 0), <<>>, NoResp)

ProxyEvents ==
  { Event("OPTIONS", HeadersA, Null), Event("GET", HeadersA, Null) }
  \cup { Event("POST", HeadersA, b) :
           b \in {Null, JStr(<<>>), JStr(AskBody), JStr(VoiceBody), JStr(NumberBody), JStr(NotJsonBody)} }

ProxyInvoke(ev) ==
  /\ pc = "idle"
  /\ Apply(proxyStart(ev, env, clock, JsonParse(Or(ev.body, JStr(ObjText(<<>>))).s)))
  /\ event' = ev
  /\ UNCHANGED <<inflight, rateLog, env, buckets, clock>>

\* fetch resolves with the response headers; the handler awaits r.text()
ProxyFetchResolve(status) ==
  /\ pc = "fetch"
  /\ pc' = "text"
  /\ call' = [call EXCEPT !.status = status]
  /\ UNCHANGED <<inflight, rateLog, env, buckets, clock, event, h, calls, resp>>

\* fetch rejects
ProxyFetchReject ==
  /\ pc = "fetch"
  /\ Apply(Step("done", NoLocals, NoCall, <<>>, proxyCrash(Err("TypeError", <<TId("fetch failed")>>))))
  /\ UNCHANGED <<inflight, rateLog, env, buckets, clock, event>>

\* r.text() resolves with the body
ProxyTextResolve(text) ==
  /\ pc = "text"
  /\ Apply(Step("done", NoLocals, NoCall, <<>>,
                IF StatusOk(call.status) THEN Response(200, proxyJsonHeaders, JStr(text))
                ELSE proxyUpstreamError(call.status, text)))
  /\ UNCHANGED <<inflight, rateLog, env, buckets, clock, event>>

\* r.text() rejects
ProxyTextReject ==
  /\ pc = "text"
  /\ Apply(Step("done", NoLocals, NoCall, <<>>, proxyCrash(Err("TypeError", <<TId("terminated")>>))))
  /\ UNCHANGED <<inflight, rateLog, env, buckets, clock, event>>

ProxyTexts == ErrorBodies \cup {Completion(AnswerObj), <<>>}

InitProxy ==
  /\ env \in ProxyEnvs
  /\ buckets = [k \in {} |-> Bucket(0, 0)]
  /\ clock = 0
  /\ pc = "idle"
  /\ event = NoEvent
  /\ h = NoLocals
  /\ call = NoCall
  /\ calls = <<>>
  /\ resp = NoResp
  /\ inflight = 0
  /\ rateLog = [k \in {} |-> <<>>]

NextProxy ==
  \/ \E ev \in ProxyEvents : ProxyInvoke(ev)
  \/ \E status \in UpstreamStatuses : ProxyFetchResolve(status)
  \/ ProxyFetchReject
  \/ \E text \in ProxyTexts : ProxyTextResolve(text)
  \/ ProxyTextReject
  \/ Finish

SpecProxy == InitProxy /\ [][NextProxy]_vars

\* C18: every response of the simple proxy (204, 500 missing environment,
\* 502, 200, and the 500 of a caught exception) carries the
\* Access-Control-Allow-Origin header, and the upstream fetch is issued only
\* when AI_URL and AI_KEY are both set.
C18_ProxyResponsesCarryAllowOrigin ==
  /\ Done => "AllowOrigin" \in DOMAIN resp.headers
  /\ pc \in {"fetch", "text"} => env.AI_URL # "" /\ env.AI_KEY # ""
====
